---- MODULE Spec2Model ----
(***************************************************************************)
(* Model of the imagen-api gateway: the capability validator               *)
(* (validate_request), the /generate handler (generate_image), the         *)
(* provider dispatch (ImageProvider.generate), the three backend adapters  *)
(* (Cloudflare, ModelScope, Aliyun) and the polling helper                 *)
(* (ImageProvider._poll_for_result).                                        *)
(*                                                                         *)
(* Spec       : one call of generate_image or of ImageProvider.generate,   *)
(*              followed by the backend's replies.                         *)
(* PollerSpec : one call of _poll_for_result against a scripted            *)
(*              status_func; PollerFairSpec adds the progress of the       *)
(*              running call.                                              *)
(***************************************************************************)
EXTENDS Integers, Sequences, FiniteSets, TLC

VARIABLES
    MODELS_CONFIG,   \* app.py:16, the capability registry
    pc,              \* position of the call in flight
    entry,           \* "handler" (generate_image), "direct" (ImageProvider.generate)
                     \* or "validate" (validate_request)
    req,             \* the inputs of the call
    valid,           \* what a call of validate_request returned
    checks,          \* the checks generate_image has run, in order
    calls,           \* adapter methods invoked and backend requests issued, in order
    replies,         \* what the backend answered, in order
    result,          \* outcome of ImageProvider.generate: bytes or the exception
    resp,            \* HTTP response of generate_image
    creds,           \* app.py:19-22, the credentials the factories are bound to
    options,         \* the **kwargs a caller of ImageProvider.generate adds
    payload,         \* the outbound request of the first backend call
    msg,             \* the error message the caller sees, as its parts
    tempfiles,       \* the staged input files that exist on disk
    ppc,             \* position inside _poll_for_result
    pargs,           \* arguments of _poll_for_result and the status_func script
    elapsed,         \* time.time() - start_time
    status,          \* last value returned by status_func
    plog,            \* status_func / sleep / result_func events, in order
    pout,            \* outcome of _poll_for_result
    inflight         \* the generate_image calls served at the same time

hvars == <<MODELS_CONFIG, pc, entry, req, valid, checks, calls, replies, result, resp,
           creds, options, payload, msg, tempfiles>>
pvars == <<ppc, pargs, elapsed, status, plog, pout>>
cvars == <<inflight>>
vars == <<MODELS_CONFIG, pc, entry, req, valid, checks, calls, replies, result, resp,
          creds, options, payload, msg, tempfiles,
          ppc, pargs, elapsed, status, plog, pout, inflight>>

(***************************************************************************)
(* Values                                                                  *)
(***************************************************************************)
None == "None"
T2I == "text_to_image"
I2I == "image_to_image"
Tasks == {T2I, I2I}
Wildcard == "*"

\* Python truthiness of a str / bytes / None value
Falsy(x) == x \in {None, ""}

\* provider identifiers a request or a registry may name; "hub" has no factory
Providers == {"cloudflare", "modelscope", "aliyun", "hub"}
PROVIDER_FACTORIES == {"cloudflare", "modelscope", "aliyun"}

ModelNames == {"wanx_v1", "stable-diffusion-xl"}
TaskSets == SUBSET Tasks \ {{}}

\* per-provider capability tables: model (or "*") -> non-empty task set
TableKeys == {"wanx_v1", Wildcard}
Tables == UNION {[K -> TaskSets] : K \in SUBSET TableKeys \ {{}}}

\* the registries of the model: empty, or one provider with any table (as in
\* the scenarios of the specification; validate_request reads one table only)
Registries == UNION {[P -> Tables] : P \in {{}} \cup {{p} : p \in Providers}}

(***************************************************************************)
(* validate_request                                                        *)
(***************************************************************************)
ValidateRequestNoWildcard(cfg, provider, model, task) ==
    IF provider \notin DOMAIN cfg THEN "UnknownProvider"
    ELSE IF model \notin DOMAIN cfg[provider] THEN "UnknownModel"
    ELSE IF task \notin cfg[provider][model] THEN "UnsupportedTask"
    ELSE "ok"

ValidateRequestWrongKind(cfg, provider, model, task) ==
    IF provider \notin DOMAIN cfg THEN "UnknownProvider"
    ELSE LET provider_models == cfg[provider] IN
         IF Wildcard \in DOMAIN provider_models
         THEN IF task \notin provider_models[Wildcard]
              THEN "UnsupportedTask" ELSE "ok"
         ELSE IF model \notin DOMAIN provider_models THEN "UnsupportedTask"
         ELSE IF task \notin provider_models[model] THEN "UnsupportedTask"
         ELSE "ok"

ValidateRequest(cfg, provider, model, task) ==
    IF provider \notin DOMAIN cfg THEN "UnknownProvider"
    ELSE LET provider_models == cfg[provider] IN
         IF Wildcard \in DOMAIN provider_models
         THEN IF task \notin provider_models[Wildcard]
              THEN "UnsupportedTask" ELSE "ok"
         ELSE IF model \notin DOMAIN provider_models THEN "UnknownModel"
         ELSE IF task \notin provider_models[model] THEN "UnsupportedTask"
         ELSE "ok"

(***************************************************************************)
(* Outcomes                                                                *)
(***************************************************************************)
\* the outcome of ImageProvider.generate: image bytes, or the exception raised
\* (its Python type and the error kind its raise site stands for)
NoResult == [ok |-> FALSE, type |-> "none", kind |-> "none", bytes |-> ""]
Exc(type, kind) == [ok |-> FALSE, type |-> type, kind |-> kind, bytes |-> ""]
Bytes(b) == [ok |-> TRUE, type |-> "bytes", kind |-> "ok", bytes |-> b]

\* the HTTP response of generate_image
NoResp == [status |-> 0, kind |-> "none"]
Resp(st, kind) == [status |-> st, kind |-> kind]

\* the (is_valid, error_msg) pair of validate_request; the message is kept as
\* the error kind its text stands for
NoValid == [is_valid |-> FALSE, error |-> "none"]
Valid(kind) == [is_valid |-> kind = "ok", error |-> kind]

\* a step of the provider call: where it stands, what it has invoked, its outcome
Step(p, c, r) == [pc |-> p, calls |-> c, result |-> r]

(***************************************************************************)
(* Credentials, options and outbound requests                              *)
(***************************************************************************)
\* the values os.getenv resolves at start-up: its defaults, or the values of
\* the environment; the two bundles differ in every component
DefaultCreds ==
    [cloudflare_account_id |-> "your_cloudflare_account_id",
     cloudflare_api_token |-> "your_cloudflare_api_token",
     modelscope_api_token |-> "your_modelscope_api_token",
     dashscope_api_key |-> "your_dashscope_api_key"]

EnvCreds ==
    [cloudflare_account_id |-> "acct-1", cloudflare_api_token |-> "cf-token-1",
     modelscope_api_token |-> "ms-token-1", dashscope_api_key |-> "ds-key-1"]

CredBundles == {DefaultCreds, EnvCreds}

CredentialValues(c) ==
    {c.cloudflare_account_id, c.cloudflare_api_token,
     c.modelscope_api_token, c.dashscope_api_key}

\* the options bags of the model: any subset of these keys, each with the
\* caller's value
OptionValue == [size |-> "512*512", seed |-> "42"]
OptionKeys == DOMAIN OptionValue
OptionBags == {[k \in K |-> OptionValue[k]] : K \in SUBSET OptionKeys}
NoOptions == [k \in {} |-> ""]

\* {**base, **over}
Merge(base, over) ==
    [k \in DOMAIN base \cup DOMAIN over |->
        IF k \in DOMAIN over THEN over[k] ELSE base[k]]

\* kwargs.get(k, default)
Get(kwargs, k, default) == IF k \in DOMAIN kwargs THEN kwargs[k] ELSE default

\* base64.b64encode(input_image).decode("utf-8")
B64(b) == IF b = "PNG" THEN "UE5H" ELSE ""

\* self._base_url of CloudflareProvider, as its parts
CloudflareUrl(c, model) ==
    <<"https://api.cloudflare.com/client/v4/accounts/", c.cloudflare_account_id,
      "/ai/run/", model>>

ModelScopeUrl == <<"https://api-inference.modelscope.cn/v1/images/generations">>

\* self._model_name.startswith("stable-diffusion")
IsStableDiffusionModel(model) == model \in {"stable-diffusion-xl"}

NoPayload == [url |-> <<>>, auth |-> "", body |-> NoOptions]

CloudflareRequest(c, model, method, prompt, image, kwargs) ==
    [url |-> CloudflareUrl(c, model),
     auth |-> c.cloudflare_api_token,
     body |-> IF method = T2I
              THEN Merge([prompt |-> prompt], kwargs)
              ELSE Merge([prompt |-> prompt, image_b64 |-> B64(image)], kwargs)]

ModelScopeRequest(c, model, prompt, kwargs) ==
    [url |-> ModelScopeUrl,
     auth |-> c.modelscope_api_token,
     body |-> Merge([model |-> model, prompt |-> prompt], kwargs)]

\* the params of ImageSynthesis.call; api_key is kept as the request's auth
AliyunRequest(c, model, method, prompt, path, kwargs) ==
    LET base == [model |-> model, prompt |-> prompt,
                 n |-> Get(kwargs, "n", "1"),
                 size |-> Get(kwargs, "size", "1024*1024")]
        staged == IF method = I2I
                  THEN Merge(base, [sketch_image_url |-> path]) ELSE base
        family ==
            IF IsStableDiffusionModel(model)
            THEN [negative_prompt |-> Get(kwargs, "negative_prompt", "")]
            ELSE IF method = T2I
            THEN [style |-> Get(kwargs, "style", "<auto>")]
            ELSE [style |-> Get(kwargs, "style", "<auto>"),
                  ref_mode |-> Get(kwargs, "ref_mode", "repaint"),
                  ref_strength |-> Get(kwargs, "ref_strength", "1.0")]
    IN [url |-> <<"ImageSynthesis.call">>,
        auth |-> c.dashscope_api_key,
        body |-> Merge(staged, family)]

\* the request the adapter method sends first
OutboundRequest(c, provider, model, method, prompt, image, path, kwargs) ==
    CASE provider = "cloudflare" -> CloudflareRequest(c, model, method, prompt, image, kwargs)
      [] provider = "modelscope" -> ModelScopeRequest(c, model, prompt, kwargs)
      [] provider = "aliyun" -> AliyunRequest(c, model, method, prompt, path, kwargs)

\* str(e) of the exception the first backend call ends with, as its parts:
\* requests puts the request URL into its HTTPError and ConnectionError texts
PostErrorMessage(c, provider, model, reply) ==
    LET url == IF provider = "cloudflare" THEN CloudflareUrl(c, model) ELSE ModelScopeUrl
    IN CASE reply = "http_error" -> <<"Client Error for url: ">> \o url
         [] reply = "transport_error" /\ provider # "aliyun" ->
               <<"Max retries exceeded with url: ">> \o url
         [] reply = "transport_error" /\ provider = "aliyun" ->
               <<"Max retries exceeded with url: ", "dashscope.aliyuncs.com">>
         [] reply = "not_ok" ->
               <<"failed, status_code: ", "backend status", ", code: ", "backend code",
                 ", message: ", "backend message">>
         [] reply \in {"no_results", "empty_results"} ->
               <<"Unexpected response format for model '", model, "': no 'results' found.">>
         [] reply = "not_json" -> <<"Expecting value">>
         [] reply = "no_images_key" -> <<"'images'">>
         [] reply = "empty_images" -> <<"list index out of range">>
         [] reply = "no_url" -> <<"'url'">>
         [] OTHER -> <<>>

\* str(e) of the exception the GET of the result URL ends with
GetErrorMessage(reply) ==
    CASE reply = "http_error" -> <<"Client Error for url: ", "result url">>
      [] reply = "transport_error" -> <<"Max retries exceeded with url: ", "result url">>
      [] OTHER -> <<>>

\* str(e) of the exceptions ImageProvider.generate raises itself
GenerateErrorMessage(res, task) ==
    CASE res.kind = "InvalidTask" ->
            <<"Unsupported task type: ", task, ". Use 'text_to_image' or 'image_to_image'.">>
      [] res.kind = "MissingParameter" /\ task = T2I ->
            <<"Text-to-image task requires a 'prompt' parameter.">>
      [] res.kind = "MissingParameter" ->
            <<"Image-to-image task requires both 'prompt' and 'input_image' parameters.">>
      [] res.kind = "NotSupported" ->
            <<"This provider does not support image-to-image generation.">>
      [] OTHER -> <<>>

\* the error text generate_image answers for a check that failed
CheckMessage(kind, run, r) ==
    CASE kind = "MissingParameter" /\ run = <<"params">> ->
            <<"Missing required parameters: provider, model, task, prompt">>
      [] kind = "MissingParameter" /\ r.image = "absent" ->
            <<"Missing 'image' file for image-to-image task.">>
      [] kind = "MissingParameter" -> <<"No selected file for 'image'.">>
      [] kind = "InvalidTask" ->
            <<"Invalid task type. Use 'text_to_image' or 'image_to_image'.">>
      [] kind = "UnknownProvider" ->
            <<"Provider '", r.provider, "' not found in configuration.">>
      [] kind = "UnknownModel" ->
            <<"Model '", r.model, "' not found under provider '", r.provider, "'.">>
      [] kind = "UnsupportedTask" ->
            <<"Task '", r.task, "' not supported under provider '", r.provider, "'.">>
      [] kind = "ProviderNotImplemented" ->
            <<"Provider '", r.provider, "' is not implemented.">>
      [] OTHER -> <<>>

\* what the caller of the entry point sees of an exception text: generate_image
\* wraps it, a direct caller gets the exception itself
Surface(ent, text) ==
    IF text = <<>> THEN <<>>
    ELSE IF ent = "handler" THEN <<"Image generation failed: ">> \o text
    ELSE text

\* the staged input file of a call: NamedTemporaryFile picks a fresh name
TempPaths == <<"/tmp/tmp_a.png", "/tmp/tmp_b.png", "/tmp/tmp_c.png">>
TempNameFixed(t) == TempPaths[1]
TempName(t) == TempPaths[t]

\* AliyunProvider.image_to_image stages the input image
Stages(provider, method) == provider = "aliyun" /\ method = I2I

\* the finally clause: os.unlink(temp_file_path), whose FileNotFoundError
\* replaces the outcome of the try block
Finally(files, path, res) ==
    IF path \in files
    THEN [files |-> files \ {path}, result |-> res, text |-> <<>>]
    ELSE [files |-> files,
          result |-> [ok |-> FALSE, type |-> "FileNotFoundError",
                      kind |-> "FileNotFoundError", bytes |-> ""],
          text |-> <<"No such file or directory: ", path>>]

(***************************************************************************)
(* Backend adapters                                                        *)
(***************************************************************************)
\* replies of the first backend call, per adapter
PostReplies(provider) ==
    CASE provider = "cloudflare" -> {"transport_error", "http_error", "ok"}
      [] provider = "modelscope" ->
            {"transport_error", "http_error", "not_json", "no_images_key",
             "empty_images", "no_url", "url"}
      [] provider = "aliyun" ->
            {"transport_error", "not_ok", "no_results", "empty_results", "results"}

\* replies of the second GET of the redirect-to-URL adapters
GetReplies == {"transport_error", "http_error", "ok"}

\* the adapter method `method` is entered: it fails at once or issues its
\* first backend request
AdapterInvoke(provider, method) ==
    IF provider = "modelscope" /\ method = I2I
    THEN Step("done", <<method>>, Exc("NotImplementedError", "NotSupported"))
    ELSE IF provider = "aliyun" /\ method = I2I
    THEN Step("stage", <<method>>, NoResult)
    ELSE Step("post", <<method, "POST">>, NoResult)

CloudflareOnReply(reply) ==
    CASE reply = "transport_error" -> Step("done", <<>>, Exc("ConnectionError", "TransportError"))
      [] reply = "http_error" -> Step("done", <<>>, Exc("HTTPError", "BackendError"))
      [] reply = "ok" -> Step("done", <<>>, Bytes("PNG"))

ModelScopeOnReply(reply) ==
    CASE reply = "transport_error" -> Step("done", <<>>, Exc("ConnectionError", "TransportError"))
      [] reply = "http_error" -> Step("done", <<>>, Exc("HTTPError", "BackendError"))
      [] reply = "not_json" -> Step("done", <<>>, Exc("JSONDecodeError", "JSONDecodeError"))
      [] reply = "no_images_key" -> Step("done", <<>>, Exc("KeyError", "KeyError"))
      [] reply = "empty_images" -> Step("done", <<>>, Exc("IndexError", "IndexError"))
      [] reply = "no_url" -> Step("done", <<>>, Exc("KeyError", "KeyError"))
      [] reply = "url" -> Step("get", <<"GET">>, NoResult)

AliyunOnReply(reply) ==
    CASE reply = "transport_error" -> Step("done", <<>>, Exc("ConnectionError", "TransportError"))
      [] reply = "not_ok" -> Step("done", <<>>, Exc("ValueError", "BackendError"))
      [] reply \in {"no_results", "empty_results"} ->
            Step("done", <<>>, Exc("ValueError", "MalformedResponse"))
      [] reply = "results" -> Step("get", <<"GET">>, NoResult)

OnPostReply(provider, reply) ==
    CASE provider = "cloudflare" -> CloudflareOnReply(reply)
      [] provider = "modelscope" -> ModelScopeOnReply(reply)
      [] provider = "aliyun" -> AliyunOnReply(reply)

OnGetReply(reply) ==
    CASE reply = "transport_error" -> Step("done", <<>>, Exc("ConnectionError", "TransportError"))
      [] reply = "http_error" -> Step("done", <<>>, Exc("HTTPError", "BackendError"))
      [] reply = "ok" -> Step("done", <<>>, Bytes("PNG"))

(***************************************************************************)
(* ImageProvider.generate                                                  *)
(***************************************************************************)
ProviderGenerateNoImageCheck(provider, task, prompt, input_image) ==
    IF task = T2I
    THEN IF Falsy(prompt)
         THEN Step("done", <<>>, Exc("ValueError", "MissingParameter"))
         ELSE AdapterInvoke(provider, T2I)
    ELSE IF task = I2I
    THEN IF Falsy(prompt)
         THEN Step("done", <<>>, Exc("ValueError", "MissingParameter"))
         ELSE AdapterInvoke(provider, I2I)
    ELSE Step("done", <<>>, Exc("ValueError", "InvalidTask"))

ProviderGenerateDefaultT2I(provider, task, prompt, input_image) ==
    IF task = I2I
    THEN IF Falsy(prompt) \/ Falsy(input_image)
         THEN Step("done", <<>>, Exc("ValueError", "MissingParameter"))
         ELSE AdapterInvoke(provider, I2I)
    ELSE IF Falsy(prompt)
         THEN Step("done", <<>>, Exc("ValueError", "MissingParameter"))
         ELSE AdapterInvoke(provider, T2I)

ProviderGenerate(provider, task, prompt, input_image) ==
    IF task = T2I
    THEN IF Falsy(prompt)
         THEN Step("done", <<>>, Exc("ValueError", "MissingParameter"))
         ELSE AdapterInvoke(provider, T2I)
    ELSE IF task = I2I
    THEN IF Falsy(prompt) \/ Falsy(input_image)
         THEN Step("done", <<>>, Exc("ValueError", "MissingParameter"))
         ELSE AdapterInvoke(provider, I2I)
    ELSE Step("done", <<>>, Exc("ValueError", "InvalidTask"))

(***************************************************************************)
(* generate_image (app.py; index.py is the same handler for Azure)         *)
(***************************************************************************)
\* what the form / files of a request may hold
FormValues(S) == S \cup {""}
ImageFiles == {"absent", "no_filename", "empty_file", "png_file"}

\* image_file.read()
ReadFile(f) == IF f = "png_file" THEN "PNG" ELSE ""

Requests ==
    [provider : FormValues(Providers),
     model : FormValues(ModelNames),
     task : FormValues(Tasks \cup {"upscale"}),
     prompt : FormValues({"a cat"}),
     image : ImageFiles]

\* direct callers of ImageProvider.generate pass any task and any params
DirectCalls ==
    [provider : PROVIDER_FACTORIES,
     model : ModelNames,
     task : Tasks \cup {"upscale", ""},
     prompt : {None, "", "a cat"},
     image : {None, "", "PNG"}]

NoReq == [provider |-> "", model |-> "", task |-> "", prompt |-> "", image |-> "absent"]

\* the checks generate_image runs before it dispatches: the response of the
\* first one that fails ("pass" when none does) and the checks run so far
Check(st, kind, run) == [status |-> st, kind |-> kind, checks |-> run]

PrecheckFactory500As400(cfg, r) ==
    IF r.provider = "" \/ r.model = "" \/ r.task = "" \/ r.prompt = ""
    THEN Check(400, "MissingParameter", <<"params">>)
    ELSE IF r.task \notin Tasks
    THEN Check(400, "InvalidTask", <<"params", "task">>)
    ELSE IF ValidateRequest(cfg, r.provider, r.model, r.task) # "ok"
    THEN Check(400, ValidateRequest(cfg, r.provider, r.model, r.task),
               <<"params", "task", "registry">>)
    ELSE IF r.task = I2I /\ r.image \in {"absent", "no_filename"}
    THEN Check(400, "MissingParameter", <<"params", "task", "registry", "image">>)
    ELSE IF r.provider \notin PROVIDER_FACTORIES
    THEN Check(400, "ProviderNotImplemented",
               <<"params", "task", "registry", "image", "factory">>)
    ELSE Check(0, "pass", <<"params", "task", "registry", "image", "factory">>)

PrecheckTaskFirst(cfg, r) ==
    IF r.task \notin Tasks /\ r.task # ""
    THEN Check(400, "InvalidTask", <<"task">>)
    ELSE IF r.provider = "" \/ r.model = "" \/ r.task = "" \/ r.prompt = ""
    THEN Check(400, "MissingParameter", <<"task", "params">>)
    ELSE IF ValidateRequest(cfg, r.provider, r.model, r.task) # "ok"
    THEN Check(400, ValidateRequest(cfg, r.provider, r.model, r.task),
               <<"task", "params", "registry">>)
    ELSE IF r.task = I2I /\ r.image \in {"absent", "no_filename"}
    THEN Check(400, "MissingParameter", <<"task", "params", "registry", "image">>)
    ELSE IF r.provider \notin PROVIDER_FACTORIES
    THEN Check(500, "ProviderNotImplemented",
               <<"task", "params", "registry", "image", "factory">>)
    ELSE Check(0, "pass", <<"task", "params", "registry", "image", "factory">>)

Precheck(cfg, r) ==
    IF r.provider = "" \/ r.model = "" \/ r.task = "" \/ r.prompt = ""
    THEN Check(400, "MissingParameter", <<"params">>)
    ELSE IF r.task \notin Tasks
    THEN Check(400, "InvalidTask", <<"params", "task">>)
    ELSE IF ValidateRequest(cfg, r.provider, r.model, r.task) # "ok"
    THEN Check(400, ValidateRequest(cfg, r.provider, r.model, r.task),
               <<"params", "task", "registry">>)
    ELSE IF r.task = I2I /\ r.image \in {"absent", "no_filename"}
    THEN Check(400, "MissingParameter", <<"params", "task", "registry", "image">>)
    ELSE IF r.provider \notin PROVIDER_FACTORIES
    THEN Check(500, "ProviderNotImplemented",
               <<"params", "task", "registry", "image", "factory">>)
    ELSE Check(0, "pass", <<"params", "task", "registry", "image", "factory">>)

\* the try / except around provider_instance.generate
Respond(res) ==
    IF res = NoResult THEN NoResp
    ELSE IF res.ok THEN Resp(200, "ok")
    ELSE Resp(500, res.kind)

\* the input_image generate_image hands to ImageProvider.generate
InputImage(r) == IF r.task = I2I THEN ReadFile(r.image) ELSE None

\* the calls the server threads serve at the same time, and one of them
\* before it is accepted
MaxCalls == 2
Calls == 1..MaxCalls
NoCall ==
    [pc |-> "idle", req |-> NoReq, io |-> <<>>, checks |-> <<>>, calls |-> <<>>,
     result |-> NoResult, resp |-> NoResp, msg |-> <<>>]

(***************************************************************************)
(* Actions of one call                                                     *)
(***************************************************************************)
\* the state after start-up, for the registries and credentials given
InitOver(registries, bundles) ==
    /\ MODELS_CONFIG \in registries
    /\ pc = "idle"
    /\ entry = "none"
    /\ req = NoReq
    /\ valid = NoValid
    /\ checks = <<>>
    /\ calls = <<>>
    /\ replies = <<>>
    /\ result = NoResult
    /\ resp = NoResp
    /\ creds \in bundles
    /\ options = NoOptions
    /\ payload = NoPayload
    /\ msg = <<>>
    /\ tempfiles = {}
    /\ ppc = "idle"
    /\ pargs = [timeout |-> 0, poll_interval |-> 0, pending |-> 0, final |-> "pending"]
    /\ elapsed = 0
    /\ status = "none"
    /\ plog = <<>>
    /\ pout = NoResult
    /\ inflight = [t \in Calls |-> NoCall]

Init == InitOver(Registries, {DefaultCreds})

\* validate_request(provider, model, task) on its own
ValidateCall(provider, model, task) ==
    /\ pc = "idle"
    /\ pc' = "done"
    /\ entry' = "validate"
    /\ req' = [provider |-> provider, model |-> model, task |-> task,
               prompt |-> "", image |-> "absent"]
    /\ valid' = Valid(ValidateRequest(MODELS_CONFIG, provider, model, task))
    /\ UNCHANGED <<MODELS_CONFIG, checks, calls, replies, result, resp,
                   creds, options, payload, msg, tempfiles, pvars, cvars>>

\* the call in flight of this specification is call 1
Self == 1

\* POST /generate: the checks, then the dispatch up to the first backend request
GenerateImage(r) ==
    /\ pc = "idle"
    /\ entry' = "handler"
    /\ req' = r
    /\ options' = NoOptions
    /\ LET pre == Precheck(MODELS_CONFIG, r) IN
       /\ checks' = pre.checks
       /\ IF pre.kind # "pass"
          THEN /\ pc' = "done"
               /\ calls' = <<>>
               /\ result' = NoResult
               /\ resp' = Resp(pre.status, pre.kind)
               /\ msg' = CheckMessage(pre.kind, pre.checks, r)
               /\ payload' = NoPayload
               /\ tempfiles' = tempfiles
          ELSE LET g == ProviderGenerate(r.provider, r.task, r.prompt, InputImage(r)) IN
               /\ pc' = g.pc
               /\ calls' = g.calls
               /\ result' = g.result
               /\ resp' = Respond(g.result)
               /\ msg' = Surface("handler", GenerateErrorMessage(g.result, r.task))
               /\ payload' = IF g.pc = "post"
                             THEN OutboundRequest(creds, r.provider, r.model, r.task,
                                                  r.prompt, InputImage(r), TempName(Self),
                                                  NoOptions)
                             ELSE NoPayload
               /\ tempfiles' = IF g.pc = "stage"
                               THEN tempfiles \cup {TempName(Self)} ELSE tempfiles
    /\ UNCHANGED <<MODELS_CONFIG, valid, replies, creds, pvars, cvars>>

\* a caller invokes provider_instance.generate(task, **params) itself
DirectGenerate(r, kwargs) ==
    /\ pc = "idle"
    /\ entry' = "direct"
    /\ req' = r
    /\ options' = kwargs
    /\ LET g == ProviderGenerate(r.provider, r.task, r.prompt, r.image) IN
       /\ pc' = g.pc
       /\ calls' = g.calls
       /\ result' = g.result
       /\ msg' = Surface("direct", GenerateErrorMessage(g.result, r.task))
       /\ payload' = IF g.pc = "post"
                     THEN OutboundRequest(creds, r.provider, r.model, r.task,
                                          r.prompt, r.image, TempName(Self), kwargs)
                     ELSE NoPayload
       /\ tempfiles' = IF g.pc = "stage"
                       THEN tempfiles \cup {TempName(Self)} ELSE tempfiles
    /\ UNCHANGED <<MODELS_CONFIG, valid, checks, replies, resp, creds, pvars, cvars>>

\* the input image the adapter method was entered with
StagedImage == IF entry = "handler" THEN InputImage(req) ELSE req.image

\* temp_file.write(input_image) of AliyunProvider.image_to_image returns or
\* raises (a full disk); the try block starts after it
StageWrite(written) ==
    /\ pc = "stage"
    /\ IF written
       THEN /\ pc' = "post"
            /\ calls' = Append(calls, "POST")
            /\ payload' = OutboundRequest(creds, req.provider, req.model, req.task,
                                          req.prompt, StagedImage, TempName(Self), options)
            /\ UNCHANGED <<result, resp, msg>>
       ELSE /\ pc' = "done"
            /\ calls' = calls
            /\ payload' = payload
            /\ result' = Exc("OSError", "OSError")
            /\ resp' = IF entry = "handler" THEN Respond(Exc("OSError", "OSError")) ELSE resp
            /\ msg' = Surface(entry, <<"No space left on device">>)
    /\ UNCHANGED <<MODELS_CONFIG, entry, req, valid, checks, replies,
                   creds, options, tempfiles, pvars, cvars>>

\* the adapter method ends with step g, whose exception text is `text`: the
\* finally clause of a staged call runs first
ConcludeCall(r, t, files, g, text) ==
    IF g.pc = "done" /\ Stages(r.provider, r.task)
    THEN LET fin == Finally(files, TempName(t), g.result) IN
         [result |-> fin.result, files |-> fin.files,
          text |-> IF fin.text # <<>> THEN fin.text ELSE text]
    ELSE [result |-> g.result, files |-> files, text |-> text]

Conclude(g, text) == ConcludeCall(req, Self, tempfiles, g, text)

\* the first backend call returns (or raises) and the adapter goes on
BackendReply(reply) ==
    /\ pc = "post"
    /\ reply \in PostReplies(req.provider)
    /\ LET g == OnPostReply(req.provider, reply)
           end == Conclude(g, PostErrorMessage(creds, req.provider, req.model, reply))
       IN /\ pc' = g.pc
          /\ calls' = calls \o g.calls
          /\ result' = end.result
          /\ resp' = IF entry = "handler" THEN Respond(end.result) ELSE resp
          /\ msg' = Surface(entry, end.text)
          /\ tempfiles' = end.files
    /\ replies' = Append(replies, reply)
    /\ UNCHANGED <<MODELS_CONFIG, entry, req, valid, checks, creds, options, payload, pvars, cvars>>

\* the GET of the result URL returns (or raises)
DownloadReply(reply) ==
    /\ pc = "get"
    /\ LET g == OnGetReply(reply)
           end == Conclude(g, GetErrorMessage(reply))
       IN /\ pc' = g.pc
          /\ calls' = calls \o g.calls
          /\ result' = end.result
          /\ resp' = IF entry = "handler" THEN Respond(end.result) ELSE resp
          /\ msg' = Surface(entry, end.text)
          /\ tempfiles' = end.files
    /\ replies' = Append(replies, reply)
    /\ UNCHANGED <<MODELS_CONFIG, entry, req, valid, checks, creds, options, payload, pvars, cvars>>

AllPostReplies == UNION {PostReplies(p) : p \in PROVIDER_FACTORIES}

Next ==
    \/ \E p \in FormValues(Providers), m \in FormValues(ModelNames),
          t \in FormValues(Tasks \cup {"upscale"}) : ValidateCall(p, m, t)
    \/ \E r \in Requests : GenerateImage(r)
    \/ \E r \in DirectCalls : DirectGenerate(r, NoOptions)
    \/ \E written \in BOOLEAN : StageWrite(written)
    \/ \E reply \in AllPostReplies : BackendReply(reply)
    \/ \E reply \in GetReplies : DownloadReply(reply)

Spec == Init /\ [][Next]_vars

(***************************************************************************)
(* The adapters under every credential bundle and options bag              *)
(***************************************************************************)
\* registries that let every model and task of one provider through
OpenRegistries == {[q \in {p} |-> [k \in {Wildcard} |-> Tasks]] : p \in Providers}

AdapterInit == InitOver(OpenRegistries, CredBundles)

AdapterNext ==
    \/ \E r \in Requests : GenerateImage(r)
    \/ \E r \in DirectCalls, kwargs \in OptionBags : DirectGenerate(r, kwargs)
    \/ \E written \in BOOLEAN : StageWrite(written)
    \/ \E reply \in AllPostReplies : BackendReply(reply)
    \/ \E reply \in GetReplies : DownloadReply(reply)

AdapterSpec == AdapterInit /\ [][AdapterNext]_vars

(***************************************************************************)
(* generate_image calls served at the same time                            *)
(***************************************************************************)
\* the steps of one generate_image call t, as functions of the call and of
\* the files on disk; ev is what the environment answers at that step
Began(cfg, t, r, files) ==
    LET pre == Precheck(cfg, r) IN
    IF pre.kind # "pass"
    THEN [call |-> [pc |-> "done", req |-> r, io |-> <<>>, checks |-> pre.checks,
                    calls |-> <<>>, result |-> NoResult,
                    resp |-> Resp(pre.status, pre.kind),
                    msg |-> CheckMessage(pre.kind, pre.checks, r)],
          files |-> files]
    ELSE LET g == ProviderGenerate(r.provider, r.task, r.prompt, InputImage(r)) IN
         [call |-> [pc |-> g.pc, req |-> r, io |-> <<>>, checks |-> pre.checks,
                    calls |-> g.calls, result |-> g.result,
                    resp |-> Respond(g.result),
                    msg |-> Surface("handler", GenerateErrorMessage(g.result, r.task))],
          files |-> IF g.pc = "stage" THEN files \cup {TempName(t)} ELSE files]

Wrote(c, ev, files) ==
    IF ev = "written"
    THEN [call |-> [c EXCEPT !.pc = "post", !.calls = Append(@, "POST"),
                             !.io = Append(@, ev)],
          files |-> files]
    ELSE [call |-> [c EXCEPT !.pc = "done", !.io = Append(@, ev),
                             !.result = Exc("OSError", "OSError"),
                             !.resp = Respond(Exc("OSError", "OSError")),
                             !.msg = Surface("handler", <<"No space left on device">>)],
          files |-> files]

Answered(t, c, ev, files, g, text) ==
    LET end == ConcludeCall(c.req, t, files, g, text) IN
    [call |-> [c EXCEPT !.pc = g.pc, !.calls = @ \o g.calls, !.io = Append(@, ev),
                        !.result = end.result, !.resp = Respond(end.result),
                        !.msg = Surface("handler", end.text)],
     files |-> end.files]

CallStep(bundle, t, c, ev, files) ==
    CASE c.pc = "stage" -> Wrote(c, ev, files)
      [] c.pc = "post" ->
            Answered(t, c, ev, files, OnPostReply(c.req.provider, ev),
                     PostErrorMessage(bundle, c.req.provider, c.req.model, ev))
      [] c.pc = "get" ->
            Answered(t, c, ev, files, OnGetReply(ev), GetErrorMessage(ev))
      [] OTHER -> [call |-> c, files |-> files]

\* what the environment can answer to call c at its next step
WriteEvents == {"written", "write_failed"}
Answers(c) ==
    CASE c.pc = "stage" -> WriteEvents
      [] c.pc = "post" -> PostReplies(c.req.provider)
      [] c.pc = "get" -> GetReplies
      [] OTHER -> {}

\* call t served with no other call in the process: request r, then the
\* first k answers of io
RECURSIVE Replay(_, _, _, _, _, _)
Replay(cfg, bundle, t, r, io, k) ==
    IF k = 0 THEN Began(cfg, t, r, {})
    ELSE LET before == Replay(cfg, bundle, t, r, io, k - 1) IN
         CallStep(bundle, t, before.call, io[k], before.files)

RunAlone(cfg, bundle, t, r, io) == Replay(cfg, bundle, t, r, io, Len(io)).call

\* the requests the threads are given: every provider name and both
\* operations, with and without a parameter missing
ConcRequests ==
    {r \in Requests : /\ r.model = "wanx_v1"
                      /\ r.task \in Tasks
                      /\ r.image = "png_file"}

\* a server thread accepts request r as call t
CallBegin(t, r) ==
    /\ inflight[t].pc = "idle"
    /\ LET s == Began(MODELS_CONFIG, t, r, tempfiles) IN
       /\ inflight' = [inflight EXCEPT ![t] = s.call]
       /\ tempfiles' = s.files
    /\ UNCHANGED <<MODELS_CONFIG, pc, entry, req, valid, checks, calls, replies,
                   result, resp, creds, options, payload, msg, pvars>>

\* call t gets the answer ev of the step it waits in
CallAnswer(t, ev) ==
    /\ ev \in Answers(inflight[t])
    /\ LET s == CallStep(creds, t, inflight[t], ev, tempfiles) IN
       /\ inflight' = [inflight EXCEPT ![t] = s.call]
       /\ tempfiles' = s.files
    /\ UNCHANGED <<MODELS_CONFIG, pc, entry, req, valid, checks, calls, replies,
                   result, resp, creds, options, payload, msg, pvars>>

ConcInit == InitOver(OpenRegistries, {DefaultCreds})

ConcNext ==
    \/ \E t \in Calls, r \in ConcRequests : CallBegin(t, r)
    \/ \E t \in Calls, ev \in WriteEvents \cup AllPostReplies \cup GetReplies :
          CallAnswer(t, ev)

ConcSpec == ConcInit /\ [][ConcNext]_vars

(***************************************************************************)
(* ImageProvider._poll_for_result                                          *)
(***************************************************************************)
MaxTimeout == 4        \* timeout is drawn from 0..MaxTimeout
MaxPollInterval == 2   \* poll_interval is drawn from 1..MaxPollInterval
MaxPending == 3        \* status_func answers pending 0..MaxPending times first
MaxLatency == 2        \* a status_func call takes 0..MaxLatency

\* the test double: pending `pending` times, then `final` for ever
\* (final = "pending": a job that never completes)
PollArgs ==
    [timeout : 0..MaxTimeout,
     poll_interval : 1..MaxPollInterval,
     pending : 0..MaxPending,
     final : {"pending", "complete", "failed"}]

Event(ev, val, took) == [ev |-> ev, val |-> val, took |-> took]

RECURSIVE CountEv(_, _)
CountEv(log, ev) ==
    IF log = <<>> THEN 0
    ELSE (IF Head(log).ev = ev THEN 1 ELSE 0) + CountEv(Tail(log), ev)

\* status_func(task_id) of the test double, on its (k+1)-th call
StatusFunc(a, k) == IF k < a.pending THEN "pending" ELSE a.final

\* while time.time() - start_time < timeout
PollContinueEarlyTimeout(el, timeout) == el + 1 < timeout

PollContinue(el, timeout) == el < timeout

\* what the loop body does with the status it read
AfterStatusIgnoreComplete(st) ==
    CASE st = "complete" -> "sleep"
      [] st = "failed" -> "raise"
      [] OTHER -> "sleep"

AfterStatusIgnoreFailed(st) ==
    CASE st = "complete" -> "return"
      [] st = "failed" -> "sleep"
      [] OTHER -> "sleep"

AfterStatus(st) ==
    CASE st = "complete" -> "return"
      [] st = "failed" -> "raise"
      [] OTHER -> "sleep"

PollerInit ==
    /\ MODELS_CONFIG = <<>>
    /\ pc = "idle"
    /\ entry = "none"
    /\ req = NoReq
    /\ valid = NoValid
    /\ checks = <<>>
    /\ calls = <<>>
    /\ replies = <<>>
    /\ result = NoResult
    /\ resp = NoResp
    /\ creds = DefaultCreds
    /\ options = NoOptions
    /\ payload = NoPayload
    /\ msg = <<>>
    /\ tempfiles = {}
    /\ ppc = "idle"
    /\ pargs \in PollArgs
    /\ elapsed = 0
    /\ status = "none"
    /\ plog = <<>>
    /\ pout = NoResult
    /\ inflight = [t \in Calls |-> NoCall]

\* the call is made: start_time = time.time()
PollForResult ==
    /\ ppc = "idle"
    /\ ppc' = "loop"
    /\ elapsed' = 0
    /\ UNCHANGED <<hvars, cvars, pargs, status, plog, pout>>

\* the while condition; when it fails, the TimeoutError after the loop
LoopTest ==
    /\ ppc = "loop"
    /\ IF PollContinue(elapsed, pargs.timeout)
       THEN /\ ppc' = "status"
            /\ pout' = pout
       ELSE /\ ppc' = "done"
            /\ pout' = Exc("TimeoutError", "JobTimeout")
    /\ UNCHANGED <<hvars, cvars, pargs, elapsed, status, plog>>

\* status = status_func(task_id), which takes d, and the branch on it
StatusCall(d) ==
    /\ ppc = "status"
    /\ LET st == StatusFunc(pargs, CountEv(plog, "status"))
           polled == Append(plog, Event("status", st, d))
       IN /\ status' = st
          /\ elapsed' = elapsed + d
          /\ CASE AfterStatus(st) = "return" ->
                    /\ plog' = Append(polled, Event("result", "RESULT", 0))
                    /\ pout' = Bytes("RESULT")
                    /\ ppc' = "done"
               [] AfterStatus(st) = "raise" ->
                    /\ plog' = polled
                    /\ pout' = Exc("ValueError", "JobFailed")
                    /\ ppc' = "done"
               [] OTHER ->
                    /\ plog' = polled
                    /\ pout' = pout
                    /\ ppc' = "sleep"
    /\ UNCHANGED <<hvars, cvars, pargs>>

\* time.sleep(poll_interval)
Sleep ==
    /\ ppc = "sleep"
    /\ elapsed' = elapsed + pargs.poll_interval
    /\ plog' = Append(plog, Event("sleep", "", pargs.poll_interval))
    /\ ppc' = "loop"
    /\ UNCHANGED <<hvars, cvars, pargs, status, pout>>

PollerStep ==
    \/ LoopTest
    \/ \E d \in 0..MaxLatency : StatusCall(d)
    \/ Sleep

PollerNext ==
    \/ PollForResult
    \/ PollerStep

PollerSpec == PollerInit /\ [][PollerNext]_vars

\* a call that was made runs on: a thread executing _poll_for_result is not
\* suspended for ever
PollerFairSpec == PollerSpec /\ WF_vars(PollerStep)

(***************************************************************************)
(* Properties of validate_request                                          *)
(***************************************************************************)
ExplicitTable(cfg, provider) ==
    provider \in DOMAIN cfg /\ Wildcard \notin DOMAIN cfg[provider]

WildcardTable(cfg, provider) ==
    provider \in DOMAIN cfg /\ Wildcard \in DOMAIN cfg[provider]

\* C1: validate_request answers UnknownProvider exactly when the provider is
\* no key of the registry; for a provider with an explicit table it answers
\* UnknownModel when the model is no key of the table, UnsupportedTask when
\* the model is a key and the task is not in its task set, and it succeeds
\* otherwise; a failure always carries one of the three kinds.
C1_ValidateMatchingKind ==
    entry = "validate" =>
        /\ req.provider \notin DOMAIN MODELS_CONFIG
              => valid = [is_valid |-> FALSE, error |-> "UnknownProvider"]
        /\ ExplicitTable(MODELS_CONFIG, req.provider) =>
              LET table == MODELS_CONFIG[req.provider] IN
              /\ req.model \notin DOMAIN table
                    => valid = [is_valid |-> FALSE, error |-> "UnknownModel"]
              /\ (req.model \in DOMAIN table /\ req.task \notin table[req.model])
                    => valid = [is_valid |-> FALSE, error |-> "UnsupportedTask"]
              /\ (req.model \in DOMAIN table /\ req.task \in table[req.model])
                    => valid = [is_valid |-> TRUE, error |-> "ok"]
        /\ ~valid.is_valid
              => valid.error \in {"UnknownProvider", "UnknownModel", "UnsupportedTask"}

C1_Witness ==
    /\ entry = "validate"
    /\ ExplicitTable(MODELS_CONFIG, req.provider)
    /\ req.model \notin DOMAIN MODELS_CONFIG[req.provider]
    /\ req.model # ""
    /\ valid.error = "UnknownModel"

\* C2: under a provider whose table has the "*" key, validate_request
\* succeeds exactly when the task is in the wildcard task set and otherwise
\* answers UnsupportedTask, whatever the model string is.
C2_WildcardIgnoresModel ==
    (entry = "validate" /\ WildcardTable(MODELS_CONFIG, req.provider)) =>
        IF req.task \in MODELS_CONFIG[req.provider][Wildcard]
        THEN valid = [is_valid |-> TRUE, error |-> "ok"]
        ELSE valid = [is_valid |-> FALSE, error |-> "UnsupportedTask"]

C2_Witness ==
    /\ entry = "validate"
    /\ WildcardTable(MODELS_CONFIG, req.provider)
    /\ req.model = "stable-diffusion-xl"
    /\ req.model \notin DOMAIN MODELS_CONFIG[req.provider]
    /\ valid.is_valid

(***************************************************************************)
(* Properties of generate_image                                            *)
(***************************************************************************)
Handled == entry = "handler" /\ pc # "idle"

EmptyField(r) == r.provider = "" \/ r.model = "" \/ r.task = "" \/ r.prompt = ""

NoInputImage(r) == r.task = I2I /\ r.image \in {"absent", "no_filename"}

\* what the registry says of the request in flight, read off the table
ValidateRequestSpec ==
    IF req.provider \notin DOMAIN MODELS_CONFIG THEN "UnknownProvider"
    ELSE IF WildcardTable(MODELS_CONFIG, req.provider)
    THEN IF req.task \in MODELS_CONFIG[req.provider][Wildcard]
         THEN "ok" ELSE "UnsupportedTask"
    ELSE IF req.model \notin DOMAIN MODELS_CONFIG[req.provider] THEN "UnknownModel"
    ELSE IF req.task \in MODELS_CONFIG[req.provider][req.model]
         THEN "ok" ELSE "UnsupportedTask"

\* C3 as stated: a request with an empty provider / model / task / prompt, or
\* with task image_to_image and no input image, is rejected with
\* MissingParameter by the first check, before the task check and the
\* registry validation.
C3_MissingParameterFirst ==
    (Handled /\ (EmptyField(req) \/ NoInputImage(req))) =>
        /\ resp = Resp(400, "MissingParameter")
        /\ checks = <<"params">>

\* C3 amended: an empty provider / model / task / prompt is rejected with
\* MissingParameter by the first check. With the four fields present, a
\* missing input image of an image_to_image request is rejected with status
\* 400 before any provider is used, by the check that follows the registry
\* validation: MissingParameter when the validation passes, the validation's
\* own error kind when it does not.
C3_MissingParameterOrder ==
    /\ (Handled /\ EmptyField(req)) =>
           /\ resp = Resp(400, "MissingParameter")
           /\ checks = <<"params">>
    /\ (Handled /\ ~EmptyField(req) /\ NoInputImage(req)) =>
           LET v == ValidateRequestSpec IN
           /\ resp.status = 400
           /\ calls = <<>>
           /\ result = NoResult
           /\ pc = "done"
           /\ v = "ok" => /\ resp.kind = "MissingParameter"
                          /\ checks = <<"params", "task", "registry", "image">>
           /\ v # "ok" => /\ resp.kind = v
                          /\ checks = <<"params", "task", "registry">>

C3_Witness ==
    /\ Handled
    /\ ~EmptyField(req)
    /\ NoInputImage(req)
    /\ resp = Resp(400, "MissingParameter")
    /\ checks = <<"params", "task", "registry", "image">>

\* error kinds of the taxonomy, by origin
ValidationKinds ==
    {"MissingParameter", "InvalidTask", "UnknownProvider", "UnknownModel",
     "UnsupportedTask", "ProviderNotImplemented"}

BackendKinds ==
    {"BackendError", "TransportError", "MalformedResponse", "JobFailed", "JobTimeout"}

\* C10 as stated: generate_image reports every validation error kind with
\* the client-input status 400 and every backend-origin error kind with
\* another status.
C10_ValidationKindsAre400 ==
    (Handled /\ resp # NoResp) =>
        /\ resp.kind \in ValidationKinds => resp.status = 400
        /\ resp.kind \in BackendKinds => resp.status # 400

\* C10 amended: the failures generate_image finds itself before it looks up
\* the factory (MissingParameter, InvalidTask, UnknownProvider, UnknownModel,
\* UnsupportedTask) are reported with status 400 and nothing else is;
\* ProviderNotImplemented is reported with status 500, and so is every
\* exception raised by provider_instance.generate: the backend-origin errors
\* and also the MissingParameter it raises for an empty input image.
C10_StatusClasses ==
    (Handled /\ resp # NoResp) =>
        /\ resp.status \in {200, 400, 500}
        /\ resp.status = 400 <=>
              /\ result = NoResult
              /\ resp.kind \in ValidationKinds \ {"ProviderNotImplemented"}
        /\ resp.kind = "ProviderNotImplemented" => resp.status = 500
        /\ (result # NoResult /\ ~result.ok) => resp = Resp(500, result.kind)
        /\ resp.kind \in BackendKinds => resp.status = 500
        /\ resp.status = 200 <=> result.ok

C10_Witness ==
    /\ Handled
    /\ resp = Resp(500, "ProviderNotImplemented")
    /\ req.provider = "hub"
    /\ checks = <<"params", "task", "registry", "image", "factory">>

(***************************************************************************)
(* Properties of ImageProvider.generate                                    *)
(***************************************************************************)
Dispatched == entry = "direct" /\ pc # "idle"

\* C4: generate with a task outside {text_to_image, image_to_image} fails
\* with InvalidTask and invokes no method of the adapter, for every adapter
\* and every prompt / input image.
C4_InvalidTaskNoAdapter ==
    (Dispatched /\ req.task \notin Tasks) =>
        /\ result = Exc("ValueError", "InvalidTask")
        /\ calls = <<>>
        /\ pc = "done"

C4_Witness ==
    /\ Dispatched
    /\ req.task = "upscale"
    /\ req.prompt = "a cat"
    /\ req.image = "PNG"
    /\ result.kind = "InvalidTask"

\* the input image ImageProvider.generate was called with
GivenImage == IF entry = "handler" THEN InputImage(req) ELSE req.image

\* generate has been called (by a caller of its own or by generate_image)
GenerateCalled ==
    \/ Dispatched
    \/ Handled /\ Precheck(MODELS_CONFIG, req).kind = "pass"

\* C5: generate("image_to_image") with an absent or empty input image fails
\* with MissingParameter; image_to_image is not invoked and no backend
\* request is issued.
C5_NoImageNoBackendCall ==
    (GenerateCalled /\ req.task = I2I /\ Falsy(GivenImage)) =>
        /\ result = Exc("ValueError", "MissingParameter")
        /\ calls = <<>>
        /\ replies = <<>>
        /\ pc = "done"

C5_Witness ==
    /\ Dispatched
    /\ req.task = I2I
    /\ req.prompt = "a cat"
    /\ req.image = None
    /\ result.kind = "MissingParameter"
    /\ calls = <<>>

(***************************************************************************)
(* Properties of the redirect-to-URL adapters                              *)
(***************************************************************************)
\* C9: when the first backend call of a redirect-to-URL adapter (ModelScope,
\* Aliyun) succeeds with an empty result list, the adapter fails with
\* MalformedResponse and never issues the GET for the image bytes.
C9_EmptyResultListMalformed ==
    (/\ req.provider \in {"modelscope", "aliyun"}
     /\ replies # <<>>
     /\ replies[1] \in {"empty_images", "empty_results"}) =>
        /\ result.kind = "MalformedResponse"
        /\ \A i \in 1..Len(calls) : calls[i] # "GET"

(***************************************************************************)
(* Properties of _poll_for_result                                          *)
(***************************************************************************)
RECURSIVE PendingTime(_)
\* the time the status_func calls that answered pending took
PendingTime(log) ==
    IF log = <<>> THEN 0
    ELSE (IF Head(log).ev = "status" /\ Head(log).val = "pending"
          THEN Head(log).took ELSE 0) + PendingTime(Tail(log))

\* result_func is invoked at most once, right after a poll that returned
\* complete, and nothing is polled after it
ResultOnceAfterComplete ==
    /\ CountEv(plog, "result") <= 1
    /\ \A i \in 1..Len(plog) :
          plog[i].ev = "result" =>
             /\ i = Len(plog)
             /\ i > 1
             /\ plog[i - 1].ev = "status"
             /\ plog[i - 1].val = "complete"
             /\ ppc = "done"

\* C6 as stated: pending N times, then complete, with N x poll_interval <
\* timeout: the call returns result_func's value, result_func is invoked
\* exactly once, only after the complete poll, and nothing is polled after.
C6_CompletesWithinTimeout ==
    (/\ ppc = "done"
     /\ pargs.final = "complete"
     /\ pargs.pending * pargs.poll_interval < pargs.timeout) =>
        /\ pout = Bytes("RESULT")
        /\ CountEv(plog, "result") = 1
        /\ ResultOnceAfterComplete

\* C6 amended: pending N times, then complete, with N x poll_interval plus
\* the time the N pending status_func calls took < timeout: the call returns
\* result_func's value, result_func is invoked exactly once, only after the
\* complete poll, and nothing is polled after. (In every run result_func is
\* invoked at most once, right after the complete poll, and ends the call.)
C6_CompletesWithinElapsed ==
    /\ ResultOnceAfterComplete
    /\ (/\ ppc = "done"
        /\ pargs.final = "complete"
        /\ pargs.pending * pargs.poll_interval + PendingTime(plog) < pargs.timeout) =>
           /\ pout = Bytes("RESULT")
           /\ CountEv(plog, "result") = 1
           /\ CountEv(plog, "status") = pargs.pending + 1
           /\ CountEv(plog, "sleep") = pargs.pending

C6_Witness ==
    /\ ppc = "done"
    /\ pargs.final = "complete"
    /\ pargs.pending = 2
    /\ PendingTime(plog) > 0
    /\ pout = Bytes("RESULT")
    /\ CountEv(plog, "result") = 1

\* C7: with a status_func that always returns pending the call ends, and it
\* ends with JobTimeout; JobTimeout is raised only when the elapsed time has
\* reached timeout, and result_func is never invoked.
C7_AlwaysPendingTimesOut ==
    /\ [](pout.kind = "JobTimeout" =>
             /\ elapsed >= pargs.timeout
             /\ ppc = "done"
             /\ CountEv(plog, "result") = 0)
    /\ []((pargs.final = "pending" /\ ppc = "done") => pout.kind = "JobTimeout")
    /\ ((pargs.final = "pending" /\ ppc = "loop")
           ~> (ppc = "done" /\ pout = Exc("TimeoutError", "JobTimeout")))

C7_Witness ==
    /\ pargs.final = "pending"
    /\ pout = Exc("TimeoutError", "JobTimeout")
    /\ CountEv(plog, "status") >= 2
    /\ elapsed >= pargs.timeout

\* C8: the poll that returns failed ends the call with JobFailed: no further
\* status_func poll, no sleep after it, and result_func is never invoked.
C8_FailedStopsAtOnce ==
    \A i \in 1..Len(plog) :
        (plog[i].ev = "status" /\ plog[i].val = "failed") =>
           /\ i = Len(plog)
           /\ ppc = "done"
           /\ pout = Exc("ValueError", "JobFailed")
           /\ CountEv(plog, "result") = 0

C8_Witness ==
    /\ Len(plog) = 1
    /\ plog[1].ev = "status"
    /\ plog[1].val = "failed"
    /\ pout = Exc("ValueError", "JobFailed")
    /\ ppc = "done"

(***************************************************************************)
(* Properties of the adapters: credentials, staged files, options          *)
(***************************************************************************)
\* C11: no error message generate_image answers holds a component of the
\* credential bundle the factories are bound to (Cloudflare account id or
\* API token, ModelScope token, DashScope key).
C11_NoCredentialInMessage ==
    Handled => \A i \in 1..Len(msg) : msg[i] \notin CredentialValues(creds)

\* C12: when AliyunProvider.image_to_image has ended, by a return
\* or by an exception (a failed write into the staged file included), the
\* staged file of the call no longer exists.
C12_StagedFileReleased ==
    (/\ pc = "done"
     /\ Stages(req.provider, req.task)
     /\ calls # <<>>) => TempName(Self) \notin tempfiles

\* the option keys the adapter methods document as theirs
RecognizedOptions(provider, method, model) ==
    CASE provider = "cloudflare" ->
            {"negative_prompt", "height", "width", "num_steps", "guidance", "seed"}
            \cup (IF method = I2I THEN {"strength"} ELSE {})
      [] provider = "modelscope" -> {}
      [] provider = "aliyun" ->
            {"n", "size"}
            \cup (IF IsStableDiffusionModel(model) THEN {"negative_prompt"}
                  ELSE IF method = T2I THEN {"style"}
                  ELSE {"style", "ref_mode", "ref_strength"})

\* C14: every key of the options bag that the adapter does not recognize is
\* in the outbound request of the backend call, with the caller's value.
C14_UnrecognizedOptionsForwarded ==
    payload # NoPayload =>
        \A k \in DOMAIN options :
            k \notin RecognizedOptions(req.provider, req.task, req.model) =>
                /\ k \in DOMAIN payload.body
                /\ payload.body[k] = options[k]

(***************************************************************************)
(* Calls served at the same time                                           *)
(***************************************************************************)
\* C13: while generate_image calls are served in any interleaving, no step
\* changes MODELS_CONFIG or the credentials the factories are bound to, and a
\* call that has ended has the response, message and result it has when it
\* is served alone with the same request and the same answers.
C13_SameOutcomeAsAlone ==
    /\ [][MODELS_CONFIG' = MODELS_CONFIG /\ creds' = creds]_vars
    /\ [](\A t \in Calls :
            inflight[t].pc = "done" =>
                LET alone == RunAlone(MODELS_CONFIG, creds, t,
                                      inflight[t].req, inflight[t].io) IN
                /\ alone.pc = "done"
                /\ inflight[t].resp = alone.resp
                /\ inflight[t].msg = alone.msg
                /\ inflight[t].result = alone.result)

\* a staged call has ended with its image while another staged call is still
\* waiting for its backend
C13_Witness ==
    \E t, u \in Calls :
        /\ t # u
        /\ Stages(inflight[t].req.provider, inflight[t].req.task)
        /\ inflight[t].pc = "done"
        /\ inflight[t].resp = Resp(200, "ok")
        /\ Stages(inflight[u].req.provider, inflight[u].req.task)
        /\ inflight[u].pc \in {"post", "get"}
        /\ TempName(u) \in tempfiles

====
